---------------------------- MODULE Spec2Model ----------------------------
(***************************************************************************)
(* A model of src/multiComplex.js: the multiComplex module, its module-    *)
(* scoped state (config, settings, interactionEvents, trackCounts, tracks, *)
(* the canvas) and the promise chain started by draw().                    *)
(*                                                                         *)
(* JavaScript values are records [k, n, d, s]: k is the kind, n/d the      *)
(* numerator and denominator of a finite number (exact rationals stand in  *)
(* for doubles; the sign of zero is not modelled), s the characters of a   *)
(* string.                                                                 *)
(***************************************************************************)
EXTENDS Integers, Sequences, FiniteSets, TLC

(***************************************************************************)
(* JavaScript values                                                       *)
(***************************************************************************)
RECURSIVE GCD(_, _)
GCD(a, b) == IF b = 0 THEN a ELSE GCD(b, a % b)

Abs(i) == IF i < 0 THEN -i ELSE i

Undefined == [k |-> "undefined", n |-> 0, d |-> 1, s |-> <<>>]
Null == [k |-> "null", n |-> 0, d |-> 1, s |-> <<>>]
NaN == [k |-> "NaN", n |-> 0, d |-> 1, s |-> <<>>]
Infinity(sign) == [k |-> "Infinity", n |-> sign, d |-> 1, s |-> <<>>]
Str(chars) == [k |-> "string", n |-> 0, d |-> 1, s |-> chars]

\* the finite number num/den, in lowest terms
Num(num, den) ==
    LET g == GCD(Abs(num), Abs(den))
        sg == IF den < 0 THEN -1 ELSE 1
    IN [k |-> "number", n |-> sg * (num \div g), d |-> sg * (den \div g), s |-> <<>>]

JsInt(i) == [k |-> "number", n |-> i, d |-> 1, s |-> <<>>]

Digits == <<"0", "1", "2", "3", "4", "5", "6", "7", "8", "9">>

IsDigit(c) == \E i \in 1..10 : Digits[i] = c

DigitValue(c) == (CHOOSE i \in 1..10 : Digits[i] = c) - 1

RECURSIVE DecimalValue(_)
DecimalValue(chars) ==
    IF chars = <<>> THEN 0
    ELSE 10 * DecimalValue(SubSeq(chars, 1, Len(chars) - 1)) + DigitValue(chars[Len(chars)])

\* StringToNumber for the strings of the model: the empty string is 0, a
\* string of decimal digits is its value, any other string is NaN
StringToNumber(chars) ==
    IF \A i \in 1..Len(chars) : IsDigit(chars[i])
    THEN JsInt(DecimalValue(chars))
    ELSE NaN

\* the unary + of the code, and the conversion the operators - * / < apply
ToNumber(v) ==
    CASE v.k = "undefined" -> NaN
      [] v.k = "null" -> JsInt(0)
      [] v.k = "string" -> StringToNumber(v.s)
      [] OTHER -> v

\* the conversion of a condition: if (v), v ? a : b, !v, v && w
ToBoolean(v) ==
    CASE v.k = "undefined" -> FALSE
      [] v.k = "null" -> FALSE
      [] v.k = "NaN" -> FALSE
      [] v.k = "string" -> v.s # <<>>
      [] v.k = "Infinity" -> TRUE
      [] OTHER -> v.n # 0

IsFinite(v) == v.k = "number"

Sign(v) == IF v.n < 0 THEN -1 ELSE 1

Neg(v) == IF v.k = "NaN" THEN NaN ELSE [v EXCEPT !.n = -v.n]

\* a * b on numbers
MulNumbers(a, b) ==
    CASE a.k = "NaN" \/ b.k = "NaN" -> NaN
      [] a.k = "Infinity" /\ b.k = "number" /\ b.n = 0 -> NaN
      [] b.k = "Infinity" /\ a.k = "number" /\ a.n = 0 -> NaN
      [] a.k = "Infinity" \/ b.k = "Infinity" -> Infinity(Sign(a) * Sign(b))
      [] OTHER -> Num(a.n * b.n, a.d * b.d)

Mul(x, y) == MulNumbers(ToNumber(x), ToNumber(y))

\* a / b on numbers
DivNumbers(a, b) ==
    CASE a.k = "NaN" \/ b.k = "NaN" -> NaN
      [] a.k = "Infinity" /\ b.k = "Infinity" -> NaN
      [] a.k = "Infinity" -> Infinity(Sign(a) * Sign(b))
      [] b.k = "Infinity" -> JsInt(0)
      [] b.n = 0 -> IF a.n = 0 THEN NaN ELSE Infinity(Sign(a))
      [] OTHER -> Num(a.n * b.d, a.d * b.n)

Div(x, y) == DivNumbers(ToNumber(x), ToNumber(y))

\* a + b on numbers (the code adds numbers only)
AddNumbers(a, b) ==
    CASE a.k = "NaN" \/ b.k = "NaN" -> NaN
      [] a.k = "Infinity" /\ b.k = "Infinity" -> IF a.n = b.n THEN a ELSE NaN
      [] a.k = "Infinity" -> a
      [] b.k = "Infinity" -> b
      [] OTHER -> Num(a.n * b.d + b.n * a.d, a.d * b.d)

Add(x, y) == AddNumbers(ToNumber(x), ToNumber(y))

Sub(x, y) == Add(x, Neg(ToNumber(y)))

\* a < b on numbers: false when either is NaN
LessNumbers(a, b) ==
    CASE a.k = "NaN" \/ b.k = "NaN" -> FALSE
      [] a.k = "Infinity" /\ b.k = "Infinity" -> a.n < b.n
      [] a.k = "Infinity" -> a.n < 0
      [] b.k = "Infinity" -> b.n > 0
      [] OTHER -> a.n * b.d < b.n * a.d

Less(x, y) == LessNumbers(ToNumber(x), ToNumber(y))

Greater(x, y) == Less(y, x)

\* a <= b and a >= b: false when either is NaN
LessEq(x, y) == ToNumber(x).k # "NaN" /\ ToNumber(y).k # "NaN" /\ ~Less(y, x)

GreaterEq(x, y) == LessEq(y, x)

MathMinNumbers(a, b) ==
    IF a.k = "NaN" \/ b.k = "NaN" THEN NaN
    ELSE IF Less(b, a) THEN b ELSE a

MathMin(x, y) == MathMinNumbers(ToNumber(x), ToNumber(y))

\* Math.round: the nearest integer, halves up
RoundNumber(a) ==
    IF a.k = "number" THEN JsInt((2 * a.n + a.d) \div (2 * a.d)) ELSE a

MathRound(x) == RoundNumber(ToNumber(x))

(***************************************************************************)
(* Objects used as maps: trackCounts and each record's interactions.  A    *)
(* map is the sequence of its entries in the order for-in visits them:     *)
(* array-index keys ("0", "7", "10") in ascending numeric order first,     *)
(* then every other key in insertion order.  Each entry carries its key    *)
(* in the field protein.                                                   *)
(***************************************************************************)
\* a canonical numeric string below 2^32 - 1; the ten-digit indices are left
\* out, names of the model are shorter
IsArrayIndex(chars) ==
    /\ Len(chars) >= 1
    /\ Len(chars) <= 9
    /\ \A i \in 1..Len(chars) : IsDigit(chars[i])
    /\ (Len(chars) = 1 \/ chars[1] # "0")

\* the property key a value is converted to when it indexes an object
ToPropertyKey(v) ==
    CASE v.k = "string" -> v.s
      [] v.k = "undefined" -> <<"u", "n", "d", "e", "f", "i", "n", "e", "d">>
      [] OTHER -> <<"?">>

Keys(m) == [i \in 1..Len(m) |-> m[i].protein]

HasKey(m, key) == \E i \in 1..Len(m) : m[i].protein = key

IndexOf(m, key) == CHOOSE i \in 1..Len(m) : m[i].protein = key

Entry(m, key) == m[IndexOf(m, key)]

\* where for-in will visit a key that is new to the map
InsertPos(m, key) ==
    IF IsArrayIndex(key)
    THEN 1 + Cardinality({i \in 1..Len(m) :
                 /\ IsArrayIndex(m[i].protein)
                 /\ DecimalValue(m[i].protein) < DecimalValue(key)})
    ELSE Len(m) + 1

\* m[key] = entry: an existing key keeps its place
PutProperty(m, entry) ==
    IF HasKey(m, entry.protein)
    THEN [m EXCEPT ![IndexOf(m, entry.protein)] = entry]
    ELSE LET i == InsertPos(m, entry.protein)
         IN SubSeq(m, 1, i - 1) \o <<entry>> \o SubSeq(m, i, Len(m))

\* delete m[key]
DeleteProperty(m, key) ==
    LET Keep(e) == e.protein # key
    IN SelectSeq(m, Keep)

(***************************************************************************)
(* Rows and events.  A row is a function from column names to cells; a     *)
(* cell is the string the loader read.  row[column] of a missing column is *)
(* undefined.                                                              *)
(***************************************************************************)
RowGet(row, column) == IF column \in DOMAIN row THEN row[column] ELSE Undefined

\* the comparator of interactionEvents.sort: (+a[timePointColumn]) - (+b[timePointColumn])
CompareEvents(a, b, cfg) ==
    Sub(ToNumber(RowGet(a, cfg.timePointColumn)), ToNumber(RowGet(b, cfg.timePointColumn)))

\* Array.prototype.sort is stable: insertion of each element after the last
\* element that does not compare greater than it
RECURSIVE SortEvents(_, _)
SortEvents(events, cfg) ==
    IF Len(events) <= 1 THEN events
    ELSE LET head == SortEvents(SubSeq(events, 1, Len(events) - 1), cfg)
             last == events[Len(events)]
             after == {i \in 1..Len(head) : ~Greater(CompareEvents(head[i], last, cfg), JsInt(0))}
             pos == IF after = {} THEN 0 ELSE CHOOSE i \in after : \A j \in after : j <= i
         IN SubSeq(head, 1, pos) \o <<last>> \o SubSeq(head, pos + 1, Len(head))

(***************************************************************************)
(* Track construction.  The operators thread a record                      *)
(*   [trackCounts, maxTrackNameLength, threw]                               *)
(* threw is "" or the error thrown; once an error is thrown nothing more   *)
(* is executed.                                                            *)
(***************************************************************************)
NoError == ""

TypeError == "TypeError"

\* setMaxProteinNameLength: protein.length of undefined throws
SetMaxProteinNameLength(st, protein) ==
    IF protein.k # "string" THEN [st EXCEPT !.threw = TypeError]
    ELSE IF st.maxTrackNameLength < Len(protein.s)
         THEN [st EXCEPT !.maxTrackNameLength = Len(protein.s)]
         ELSE st

\* the count addTrackCount stores for p1: one more for every call
NextTrackCount(trackCounts, key) ==
    IF HasKey(trackCounts, key) THEN Entry(trackCounts, key).trackCount + 1 ELSE 1

\* addTrackCount that stores the interaction only for a protein it has
\* already recorded
AddTrackCountOfKnown(st, p1, p2, timePoint) ==
    IF st.threw # NoError THEN st
    ELSE LET st1 == SetMaxProteinNameLength(st, p1)
             key == ToPropertyKey(p1)
             rec == IF HasKey(st.trackCounts, key)
                    THEN [protein |-> key,
                          trackCount |-> NextTrackCount(st.trackCounts, key),
                          interactions |->
                              PutProperty(Entry(st.trackCounts, key).interactions,
                                          [protein |-> ToPropertyKey(p2), timePoint |-> timePoint])]
                    ELSE [protein |-> key, trackCount |-> 1, interactions |-> <<>>]
         IN IF st1.threw # NoError THEN st1
            ELSE [st1 EXCEPT !.trackCounts = PutProperty(st.trackCounts, rec)]

AddTrackCount(st, p1, p2, timePoint) ==
    IF st.threw # NoError THEN st
    ELSE LET st1 == SetMaxProteinNameLength(st, p1)
             key == ToPropertyKey(p1)
             old == IF HasKey(st.trackCounts, key)
                    THEN Entry(st.trackCounts, key).interactions
                    ELSE <<>>
             rec == [protein |-> key,
                     trackCount |-> NextTrackCount(st.trackCounts, key),
                     interactions |->
                         PutProperty(old, [protein |-> ToPropertyKey(p2), timePoint |-> timePoint])]
         IN IF st1.threw # NoError THEN st1
            ELSE [st1 EXCEPT !.trackCounts = PutProperty(st.trackCounts, rec)]

\* the loop of buildTrackCounts over the sorted events
RECURSIVE AddEvents(_, _, _)
AddEvents(st, events, cfg) ==
    IF events = <<>> THEN st
    ELSE LET event == events[Len(events)]
             before == AddEvents(st, SubSeq(events, 1, Len(events) - 1), cfg)
             proteinA == RowGet(event, cfg.proteinAColumn)
             proteinB == RowGet(event, cfg.proteinBColumn)
             timePoint == ToNumber(RowGet(event, cfg.timePointColumn))
         IN AddTrackCount(AddTrackCount(before, proteinA, proteinB, timePoint),
                          proteinB, proteinA, timePoint)

\* removeDuplicateInteraction
RemoveDuplicateInteraction(trackCounts, proteinA, proteinB) ==
    LET a == Entry(trackCounts, proteinA)
        b == Entry(trackCounts, proteinB)
    IN IF a.trackCount < b.trackCount
       THEN PutProperty(trackCounts,
                [a EXCEPT !.interactions = DeleteProperty(a.interactions, proteinB),
                          !.trackCount = a.trackCount - 1])
       ELSE trackCounts

\* the prototype of trackCounts: Object.create(null)
TrackCountsPrototype == "null"

\* what trackCounts.hasOwnProperty evaluates to: an own property of that
\* name (a track record), else the prototype's method, else undefined
HasOwnPropertyLookup(trackCounts) ==
    IF HasKey(trackCounts, <<"h", "a", "s", "O", "w", "n", "P", "r", "o", "p", "e", "r", "t", "y">>)
    THEN "object"
    ELSE IF TrackCountsPrototype = "Object.prototype" THEN "function" ELSE "undefined"

\* the inner loop of removeDuplicateInteractions over the partners of proteinA
RECURSIVE RemoveDuplicatesOf(_, _, _)
RemoveDuplicatesOf(trackCounts, proteinA, partners) ==
    IF partners = <<>> THEN trackCounts
    ELSE LET proteinB == Head(partners)
             next == IF HasKey(trackCounts, proteinB)
                     THEN RemoveDuplicateInteraction(trackCounts, proteinA, proteinB)
                     ELSE trackCounts
         IN RemoveDuplicatesOf(next, proteinA, Tail(partners))

RECURSIVE RemoveDuplicatesLoop(_, _)
RemoveDuplicatesLoop(trackCounts, proteins) ==
    IF proteins = <<>> THEN trackCounts
    ELSE LET proteinA == Head(proteins)
         IN RemoveDuplicatesLoop(
                RemoveDuplicatesOf(trackCounts, proteinA,
                                   Keys(Entry(trackCounts, proteinA).interactions)),
                Tail(proteins))

\* removeDuplicateInteractions: the first iteration calls
\* trackCounts.hasOwnProperty, which is not a function
RemoveDuplicateInteractions(st) ==
    IF st.threw # NoError \/ st.trackCounts = <<>> THEN st
    ELSE IF HasOwnPropertyLookup(st.trackCounts) # "function"
         THEN [st EXCEPT !.threw = TypeError]
         ELSE [st EXCEPT !.trackCounts = RemoveDuplicatesLoop(st.trackCounts, Keys(st.trackCounts))]

\* removeSmallerTrackCounts over every protein of trackCounts
RemoveSmallerTrackCounts(st, cfg) ==
    IF st.threw # NoError THEN st
    ELSE LET Keep(e) == ~Less(JsInt(e.trackCount), cfg.minimumInteractionCount)
         IN [st EXCEPT !.trackCounts = SelectSeq(st.trackCounts, Keep)]

\* buildTrackCounts after the sort
BuildTrackCounts(st, events, cfg) ==
    LET counted == AddEvents(st, events, cfg)
        resolved == IF cfg.removeDuplicateInteractions = "true"
                    THEN RemoveDuplicateInteractions(counted)
                    ELSE counted
    IN RemoveSmallerTrackCounts(resolved, cfg)

\* getTrackInteractions: the entries of the map, in for-in order
GetTrackInteractions(interactions) == interactions

\* the comparator of tracks.sort: b.interactions.length - a.interactions.length
CompareTracks(a, b) == Len(b.interactions) - Len(a.interactions)

RECURSIVE SortTracks(_)
SortTracks(ts) ==
    IF Len(ts) <= 1 THEN ts
    ELSE LET head == SortTracks(SubSeq(ts, 1, Len(ts) - 1))
             last == ts[Len(ts)]
             after == {i \in 1..Len(head) : CompareTracks(head[i], last) <= 0}
             pos == IF after = {} THEN 0 ELSE CHOOSE i \in after : \A j \in after : j <= i
         IN SubSeq(head, 1, pos) \o <<last>> \o SubSeq(head, pos + 1, Len(head))

\* getTracks: one track per protein of trackCounts pushed onto tracks, then the sort
GetTracks(oldTracks, trackCounts) ==
    SortTracks(oldTracks \o
        [i \in 1..Len(trackCounts) |->
            [protein |-> trackCounts[i].protein,
             interactions |-> GetTrackInteractions(trackCounts[i].interactions)]])

(***************************************************************************)
(* Layout settings                                                         *)
(***************************************************************************)
\* d3.min / d3.max of a sequence of values: undefined, null and NaN are skipped
Comparable(values) == {i \in 1..Len(values) : ToNumber(values[i]).k \in {"number", "Infinity"}
                                              /\ values[i].k \notin {"undefined", "null"}}

D3Min(values) ==
    IF Comparable(values) = {} THEN Undefined
    ELSE LET i == CHOOSE i \in Comparable(values) :
                      \A j \in Comparable(values) : ~Less(values[j], values[i])
         IN values[i]

D3Max(values) ==
    IF Comparable(values) = {} THEN Undefined
    ELSE LET i == CHOOSE i \in Comparable(values) :
                      \A j \in Comparable(values) : ~Less(values[i], values[j])
         IN values[i]

TimePoints(track) == [i \in 1..Len(track.interactions) |-> track.interactions[i].timePoint]

\* getTimePointSpan: [min, max] of the time points of all tracks
GetTimePointSpan(ts) ==
    << D3Min([i \in 1..Len(ts) |-> D3Min(TimePoints(ts[i]))]),
       D3Max([i \in 1..Len(ts) |-> D3Max(TimePoints(ts[i]))]) >>

\* getTrackSpan
GetTrackSpan(ts) == << JsInt(0), JsInt(Len(ts)) >>

ScrollbarWidth == 20

\* getScreenDimensions for a window of the given inner size
GetScreenDimensions(viewport) ==
    [k |-> "object",
     width |-> JsInt(viewport.width - ScrollbarWidth),
     height |-> JsInt(viewport.height - ScrollbarWidth)]

\* getYRatio and getXRatio compute the same value
GetYRatio(cfg, screen, xSpanV, ySpanV) ==
    LET maxTimePoint == xSpanV[2]
        maxTrack == ySpanV[2]
        yRatio == Div(Div(screen.width, maxTrack), Div(screen.height, maxTimePoint))
    IN IF Greater(yRatio, JsInt(1)) THEN cfg.screenProportion
       ELSE Mul(yRatio, cfg.screenProportion)

GetXRatio(cfg, screen, xSpanV, ySpanV) ==
    LET maxTimePoint == xSpanV[2]
        maxTrack == ySpanV[2]
        xRatio == Div(Div(screen.width, maxTrack), Div(screen.height, maxTimePoint))
    IN IF Greater(xRatio, JsInt(1)) THEN cfg.screenProportion
       ELSE Mul(xRatio, cfg.screenProportion)

\* the settings object after construction; the properties generateSettings
\* adds later are undefined
InitialSettings ==
    [maxTrackNameLength |-> 0,
     outerWidth |-> JsInt(0),
     outerHeight |-> JsInt(0),
     trackStrokeWidth |-> JsInt(0),
     interactionPointRadius |-> JsInt(0),
     trackLabelWidth |-> JsInt(0),
     interactionLabelHeight |-> JsInt(0),
     fontHeightWidthRatio |-> JsInt(2),
     xRatio |-> JsInt(0),
     yRatio |-> JsInt(0),
     margin |-> [left |-> JsInt(0), top |-> JsInt(0), right |-> JsInt(0), bottom |-> JsInt(0)],
     yLabelOffset |-> Undefined,
     xLabelOffset |-> Undefined,
     innerWidth |-> Undefined,
     innerHeight |-> Undefined]

\* generateSettings, one operator per group of assignments, each reading
\* the settings the earlier ones wrote
SetRatios(s, cfg, screen, xSpanV, ySpanV) ==
    [s EXCEPT !.yRatio = IF ToBoolean(cfg.yRatio) THEN Mul(cfg.yRatio, cfg.screenProportion)
                         ELSE GetYRatio(cfg, screen, xSpanV, ySpanV),
              !.xRatio = IF ToBoolean(cfg.xRatio) THEN Mul(cfg.xRatio, cfg.screenProportion)
                         ELSE GetXRatio(cfg, screen, xSpanV, ySpanV)]

SetOuterDimensions(s, cfg, screen) ==
    [s EXCEPT !.outerHeight = IF ToBoolean(cfg.outerHeight) THEN cfg.outerHeight
                              ELSE Mul(screen.height, s.yRatio),
              !.outerWidth = IF ToBoolean(cfg.outerWidth) THEN cfg.outerWidth
                             ELSE Mul(screen.width, s.xRatio)]

\* trackStrokeWidth from the width of the canvas alone
TrackStrokeWidthOfWidth(s, maxTimePoint, maxTrack) ==
    MathRound(Div(s.outerWidth, Mul(maxTimePoint, JsInt(5))))

\* Math.min(Math.round(outerWidth / (maxTimePoint * 5)), Math.round(outerHeight / (maxTrack * 8)))
TrackStrokeWidth(s, maxTimePoint, maxTrack) ==
    MathMin(MathRound(Div(s.outerWidth, Mul(maxTimePoint, JsInt(5)))),
            MathRound(Div(s.outerHeight, Mul(maxTrack, JsInt(8)))))

SetRadius(s, width) ==
    [s EXCEPT !.trackStrokeWidth = width,
              !.interactionPointRadius = width,
              !.interactionLabelHeight = Mul(width, Num(3, 2))]

SetLabelWidth(s) ==
    [s EXCEPT !.trackLabelWidth =
        Div(Mul(s.interactionLabelHeight, JsInt(s.maxTrackNameLength)), s.fontHeightWidthRatio)]

SetLabelOffsets(s) ==
    [s EXCEPT !.yLabelOffset = Add(s.interactionPointRadius, Mul(s.interactionLabelHeight, Num(6, 5))),
              !.xLabelOffset = Add(Mul(JsInt(2), s.interactionPointRadius), s.trackLabelWidth)]

\* margins whose top and bottom also hold the offset of the labels
SetMarginWithLabelOffset(s) ==
    [s EXCEPT !.margin = [left |-> Add(s.xLabelOffset, Mul(s.interactionPointRadius, JsInt(2))),
                          top |-> Add(Mul(s.interactionPointRadius, JsInt(2)), s.yLabelOffset),
                          right |-> Mul(s.interactionPointRadius, JsInt(2)),
                          bottom |-> Add(Mul(s.interactionPointRadius, JsInt(2)), s.yLabelOffset)]]

SetMargin(s) ==
    [s EXCEPT !.margin = [left |-> Add(s.xLabelOffset, Mul(s.interactionPointRadius, JsInt(2))),
                          top |-> Mul(s.interactionPointRadius, JsInt(2)),
                          right |-> Mul(s.interactionPointRadius, JsInt(2)),
                          bottom |-> Mul(s.interactionPointRadius, JsInt(2))]]

SetInnerDimensions(s) ==
    [s EXCEPT !.innerWidth = Sub(Sub(s.outerWidth, s.margin.left), s.margin.right),
              !.innerHeight = Sub(Sub(s.outerHeight, s.margin.top), s.margin.bottom)]

SettingsOfRadius(s) == SetInnerDimensions(SetMargin(SetLabelOffsets(SetLabelWidth(s))))

\* the settings generateSettings leaves, for spans xSpanV and ySpanV
ComputeSettings(old, cfg, screen, xSpanV, ySpanV) ==
    LET sized == SetOuterDimensions(SetRatios(old, cfg, screen, xSpanV, ySpanV), cfg, screen)
    IN SettingsOfRadius(SetRadius(sized, TrackStrokeWidth(sized, xSpanV[2], ySpanV[2])))

(***************************************************************************)
(* Configuration                                                           *)
(***************************************************************************)
GOOGLE_SPREADSHEET == "googleSpreadSheet"

CSV_FILE == "csvFile"

\* multiComplexReturns.config as constructed
DefaultConfig ==
    [sourceType |-> "",
     source |-> "",
     timePointColumn |-> "Order",
     proteinAColumn |-> "Protein A",
     proteinBColumn |-> "Protein B",
     minimumInteractionCount |-> JsInt(3),
     removeDuplicateInteractions |-> "false",
     screenProportion |-> Num(7, 10),
     outerWidth |-> Null,
     outerHeight |-> Null,
     xRatio |-> Null,
     yRatio |-> Null,
     useURLConfig |-> FALSE,
     selector |-> "body"]

\* the selectors that match an element of the document
DocumentSelectors == {"body"}

\* validateConfig without the test of minimumInteractionCount
ValidateConfigNoMinimum(cfg) ==
    CASE ~(Greater(cfg.screenProportion, JsInt(0)) /\ LessEq(cfg.screenProportion, JsInt(1)))
            -> "Config screenProportion settings are invalid"
      [] ~(\/ (Greater(cfg.xRatio, JsInt(0)) /\ LessEq(cfg.xRatio, JsInt(1)))
           \/ ~ToBoolean(cfg.xRatio)
           \/ Greater(cfg.outerWidth, JsInt(0)))
            -> "Config Width settings are invalid"
      [] ~(\/ (Greater(cfg.yRatio, JsInt(0)) /\ LessEq(cfg.yRatio, JsInt(1)))
           \/ ~ToBoolean(cfg.yRatio)
           \/ Greater(cfg.outerHeight, JsInt(0)))
            -> "Config Height settings are invalid"
      [] ~(cfg.timePointColumn # "" /\ cfg.proteinAColumn # "" /\ cfg.proteinBColumn # "")
            -> "Config import column settings are invalid"
      [] cfg.selector \notin DocumentSelectors
            -> "Config selector settings are invalid"
      [] OTHER -> NoError

\* validateConfig: the error it throws, or NoError
ValidateConfig(cfg) ==
    CASE ~(Greater(cfg.screenProportion, JsInt(0)) /\ LessEq(cfg.screenProportion, JsInt(1)))
            -> "Config screenProportion settings are invalid"
      [] ~(\/ (Greater(cfg.xRatio, JsInt(0)) /\ LessEq(cfg.xRatio, JsInt(1)))
           \/ ~ToBoolean(cfg.xRatio)
           \/ Greater(cfg.outerWidth, JsInt(0)))
            -> "Config Width settings are invalid"
      [] ~(\/ (Greater(cfg.yRatio, JsInt(0)) /\ LessEq(cfg.yRatio, JsInt(1)))
           \/ ~ToBoolean(cfg.yRatio)
           \/ Greater(cfg.outerHeight, JsInt(0)))
            -> "Config Height settings are invalid"
      [] ~GreaterEq(cfg.minimumInteractionCount, JsInt(1))
            -> "Config minimumInteractionCount settings are invalid"
      [] ~(cfg.timePointColumn # "" /\ cfg.proteinAColumn # "" /\ cfg.proteinBColumn # "")
            -> "Config import column settings are invalid"
      [] cfg.selector \notin DocumentSelectors
            -> "Config selector settings are invalid"
      [] OTHER -> NoError

\* validateEventData without the test of data.length
ValidateEventDataAnyLength(data, cfg) ==
    IF Len(data) = 0 THEN NoError
    ELSE IF /\ ToBoolean(RowGet(data[1], cfg.timePointColumn))
            /\ ToBoolean(RowGet(data[1], cfg.proteinAColumn))
            /\ ToBoolean(RowGet(data[1], cfg.proteinBColumn))
         THEN NoError
         ELSE "Data loaded does not match config settings"

\* validateEventData testing every row instead of data[0]
ValidateEventDataEveryRow(data, cfg) ==
    IF /\ Len(data) > 0
       /\ \A i \in 1..Len(data) :
             /\ ToBoolean(RowGet(data[i], cfg.timePointColumn))
             /\ ToBoolean(RowGet(data[i], cfg.proteinAColumn))
             /\ ToBoolean(RowGet(data[i], cfg.proteinBColumn))
    THEN NoError
    ELSE "Data loaded does not match config settings"

\* validateEventData: the error it throws, or NoError
ValidateEventData(data, cfg) ==
    IF /\ Len(data) > 0
       /\ ToBoolean(RowGet(data[1], cfg.timePointColumn))
       /\ ToBoolean(RowGet(data[1], cfg.proteinAColumn))
       /\ ToBoolean(RowGet(data[1], cfg.proteinBColumn))
    THEN NoError
    ELSE "Data loaded does not match config settings"

(***************************************************************************)
(* Inputs                                                                  *)
(***************************************************************************)
\* the most rows a load delivers when every row list is tried
MaxRows == 2

\* the draw() calls whose loads may be outstanding together
MaxPending == 2

\* draw() is not called again once this many canvases are attached
MaxCanvases == 2

P1 == <<"P", "1">>
P2 == <<"P", "2">>
P3 == <<"P", "3">>
P4 == <<"P", "4">>

\* a row of a sheet with the default column names
Row(a, b, order) ==
    ("Protein A" :> Str(a)) @@ ("Protein B" :> Str(b)) @@ ("Order" :> Str(order))

\* the protein names and orders of the rows tried exhaustively
RowNames == {P1, P2, <<"2">>}

RowOrders == {<<"1">>, <<"2">>}

RowSet == {Row(a, b, o) : a \in RowNames, b \in RowNames, o \in RowOrders}

\* every row list of at most MaxRows rows
AllRowLists == UNION {[1..n -> RowSet] : n \in 0..MaxRows}

\* X with the five partners A, B, C, D, Y and Y with the two partners X, Z
ScenarioC ==
    << Row(<<"X">>, <<"A">>, <<"1">>), Row(<<"X">>, <<"B">>, <<"2">>),
       Row(<<"X">>, <<"C">>, <<"3">>), Row(<<"X">>, <<"D">>, <<"4">>),
       Row(<<"X">>, <<"Y">>, <<"5">>), Row(<<"Y">>, <<"Z">>, <<"6">>) >>

\* the sheets of the sample data source: the table of the module's header
\* comment, a sheet of one-character numeric names, a sheet that repeats a
\* pair, the sheet ScenarioC and an empty sheet
SampleSheets ==
    { << Row(P1, P2, <<"1">>), Row(P1, P3, <<"2">>), Row(P1, P4, <<"3">>), Row(P2, P3, <<"3">>) >>,
      << Row(<<"7">>, <<"2">>, <<"1">>) >>,
      << Row(P1, P2, <<"1">>), Row(P1, P2, <<"2">>) >>,
      ScenarioC,
      << >> }

\* a row without one of its columns: a line of the file that ends early, or a
\* sheet that has no such column
RowWithout(row, column) == [c \in (DOMAIN row) \ {column} |-> row[c]]

\* sheets of the data source whose rows are not all complete or numeric: the
\* table of the module's header comment, a later row without a protein, a
\* later row without an order, a first row without an order, a first row
\* with an empty order cell, orders that are not numbers in a later row, in
\* every row and in the second event of a pair, a pair that interacts again
\* later, a sheet whose orders start late, and an empty sheet
Sheets ==
    { << Row(P1, P2, <<"1">>), Row(P1, P3, <<"2">>), Row(P1, P4, <<"3">>), Row(P2, P3, <<"3">>) >>,
      << Row(P1, P2, <<"1">>), RowWithout(Row(P1, P3, <<"2">>), "Protein B") >>,
      << Row(P1, P2, <<"1">>), RowWithout(Row(P1, P3, <<"2">>), "Order") >>,
      << RowWithout(Row(P1, P2, <<"1">>), "Order"), Row(P1, P3, <<"2">>) >>,
      << Row(P1, P2, << >>), Row(P1, P3, <<"2">>) >>,
      << Row(P1, P2, <<"1">>), Row(P1, P3, <<"x">>) >>,
      << Row(P1, P2, <<"x">>) >>,
      << Row(P1, P2, <<"1">>), Row(P1, P2, <<"x">>) >>,
      << Row(P1, P2, <<"1">>), Row(P1, P3, <<"2">>), Row(P2, P1, <<"3">>) >>,
      << Row(P1, P2, <<"8">>), Row(P1, P3, <<"9">>) >>,
      << >> }

\* the configurations tried with these sheets
SheetConfigs ==
    {[DefaultConfig EXCEPT !.sourceType = CSV_FILE,
                           !.minimumInteractionCount = JsInt(m),
                           !.removeDuplicateInteractions = r] :
        m \in {1, 2},
        r \in {"false", "true"}}

\* configurations inside and outside the documented ranges
ConfigTries ==
    {[DefaultConfig EXCEPT !.sourceType = CSV_FILE,
                           !.screenProportion = sp,
                           !.minimumInteractionCount = m,
                           !.timePointColumn = col,
                           !.xRatio = xr,
                           !.yRatio = yr,
                           !.outerWidth = ow,
                           !.outerHeight = oh] :
        sp \in {JsInt(0), Num(7, 10), Num(3, 2)},
        m \in {JsInt(0), JsInt(1)},
        col \in {"", "Order"},
        xr \in {Null, JsInt(0), Num(1, 2), JsInt(2)},
        yr \in {Null, Num(1, 2), JsInt(2)},
        ow \in {Null, JsInt(500)},
        oh \in {Null, JsInt(400)}}

\* rows that lack a protein: an empty cell, and a row without the column
BrokenRows == {Row(P1, << >>, <<"1">>), RowWithout(Row(P1, P2, <<"2">>), "Protein A")}

\* every list of at most MaxRows rows handed to the variant
GreedyLists == UNION {[1..n -> RowSet \cup BrokenRows] : n \in 0..MaxRows}

\* the turns of buildTracks followed: one more than the rows of a list, which
\* no list whose rows are all used up reaches
MaxGreedyTracks == MaxRows + 1

\* the window sizes tried
Viewports == {[width |-> 1020, height |-> 820]}

\* the configurations the page sets before it calls draw()
Configs ==
    {[DefaultConfig EXCEPT !.sourceType = st,
                           !.minimumInteractionCount = JsInt(m),
                           !.removeDuplicateInteractions = r,
                           !.selector = sel] :
        st \in {"", CSV_FILE},
        m \in {1, 3},
        r \in {"false", "true"},
        sel \in {"body", "#chart"}}

\* the configurations of the single draw cycle
LoadingConfigs ==
    {[DefaultConfig EXCEPT !.sourceType = CSV_FILE,
                           !.minimumInteractionCount = JsInt(m),
                           !.removeDuplicateInteractions = r] :
        m \in {1, 2, 3},
        r \in {"false", "true"}}

(***************************************************************************)
(* State                                                                   *)
(***************************************************************************)
VARIABLES
    config,             \* multiComplexReturns.config
    canvasArea,         \* "null", "selection" (the svg marked held) or "empty"
    graphArea,
    interactionEvents,
    tracks,
    trackCounts,
    xSpan,              \* <<>> for null
    ySpan,
    xScale,
    yScale,
    screenDimensions,
    settings,
    dom,                \* the svg elements appended under config.selector
    pipe,               \* the promise chain of each outstanding draw()
    running,            \* the chain whose reactions are queued, or 0
    thrown              \* what the last draw() call threw, or NoError

\* the state of the earlier variant of the module, which builds its tracks
\* one at a time (buildTracks)
VARIABLES
    eventData,          \* the rows not yet turned into interactions
    proteinCounts,      \* map from a protein to its count
    proteinOrder,       \* the keys of proteinCounts, greatest count first
    greedyTracks,       \* tracks of the variant: trackName and trackNumber
    interactions,       \* trackNumber, name and order of every interaction
    greedySettings,     \* settings.maxTrackNameLength of the variant
    greedySpans,        \* xSpan and ySpan of the variant, <<>> for null
    processed,          \* the rows handed to processData, kept for reference
    step                \* where processData is: "idle", "buildTracks", "built" or "threw"

variant == << eventData, proteinCounts, proteinOrder, greedyTracks, interactions,
              greedySettings, greedySpans, processed, step >>

vars == << config, canvasArea, graphArea, interactionEvents, tracks, trackCounts,
           xSpan, ySpan, xScale, yScale, screenDimensions, settings, dom, pipe,
           running, thrown, variant >>

built == << interactionEvents, tracks, trackCounts >>

layout == << xSpan, ySpan, screenDimensions, settings >>

canvas == << canvasArea, graphArea, xScale, yScale, dom >>

Pipelines == 1..MaxPending

NullScale == [k |-> "null", domain |-> <<>>, range |-> <<>>]

NullDimensions == [k |-> "null", width |-> Null, height |-> Null]

\* pc: the reaction queued next; data: the rows the load resolved with; err
\* and threwAt: the error that rejected the chain and the reaction that threw it
IdlePipe == [pc |-> "idle", data |-> <<>>, err |-> NoError, threwAt |-> ""]

\* the reactions of the chain of draw(), in order; a rejection skips to the
\* catch reaction
StagesCanvasFirst == << "setInteractionEvents", "setupCanvas",
                        "convertInteractionEventsToTracks", "generateSettings",
                        "drawTimeAxis", "drawTracks" >>

Stages == << "setInteractionEvents", "convertInteractionEventsToTracks",
             "generateSettings", "setupCanvas", "drawTimeAxis", "drawTracks" >>

NextStage(stage) ==
    LET i == CHOOSE j \in 1..Len(Stages) : Stages[j] = stage
    IN IF i = Len(Stages) THEN "done" ELSE Stages[i + 1]

\* the reaction of chain p settles: the next reaction is queued, or the
\* catch reaction with the error thrown; the value resolved is dropped
Settle(p, pc, err) ==
    /\ pipe' = [pipe EXCEPT ![p] = [pc |-> pc, data |-> <<>>, err |-> err,
                                    threwAt |-> IF err = NoError THEN "" ELSE pipe[p].pc]]
    /\ running' = IF pc = "done" THEN 0 ELSE running

Fulfil(p) == Settle(p, NextStage(pipe[p].pc), NoError)

Reject(p, err) == Settle(p, "rejected", err)

\* the state after construction of the module
Start ==
    /\ canvasArea = "null"
    /\ graphArea = "null"
    /\ interactionEvents = <<>>
    /\ tracks = <<>>
    /\ trackCounts = <<>>
    /\ xSpan = <<>>
    /\ ySpan = <<>>
    /\ xScale = NullScale
    /\ yScale = NullScale
    /\ screenDimensions = NullDimensions
    /\ settings = InitialSettings
    /\ dom = <<>>
    /\ pipe = [p \in Pipelines |-> IdlePipe]
    /\ running = 0
    /\ thrown = NoError

\* the state after construction of the earlier variant
GreedyStart ==
    /\ eventData = <<>>
    /\ proteinCounts = <<>>
    /\ proteinOrder = <<>>
    /\ greedyTracks = <<>>
    /\ interactions = <<>>
    /\ greedySettings = [maxTrackNameLength |-> 0]
    /\ greedySpans = [xSpan |-> <<>>, ySpan |-> <<>>]
    /\ processed = <<>>
    /\ step = "idle"

Init ==
    /\ config = DefaultConfig
    /\ Start
    /\ GreedyStart

(***************************************************************************)
(* draw()                                                                  *)
(***************************************************************************)
\* owner names the chain whose setupCanvas appended an svg, while that chain
\* is the latest of its slot; a draw() call turns the owner of the svgs of
\* finished chains to 0
Forget(svgs) ==
    [i \in 1..Len(svgs) |->
        IF svgs[i].owner # 0 /\ pipe[svgs[i].owner].pc \in {"done", "failed"}
        THEN [svgs[i] EXCEPT !.owner = 0]
        ELSE svgs[i]]

\* clear() without the reset of trackCounts and tracks
ClearKeepsTracks ==
    /\ dom' = Forget(LET Stays(svg) == ~svg.held IN SelectSeq(dom, Stays))
    /\ canvasArea' = "null"
    /\ graphArea' = "null"
    /\ interactionEvents' = <<>>
    /\ trackCounts' = trackCounts
    /\ tracks' = tracks
    /\ xSpan' = <<>>
    /\ ySpan' = <<>>
    /\ xScale' = NullScale
    /\ yScale' = NullScale

\* clear(): the canvas held by canvasArea is removed and the module's data reset
Clear ==
    /\ dom' = Forget(LET Stays(svg) == ~svg.held IN SelectSeq(dom, Stays))
    /\ canvasArea' = "null"
    /\ graphArea' = "null"
    /\ interactionEvents' = <<>>
    /\ trackCounts' = <<>>
    /\ tracks' = <<>>
    /\ xSpan' = <<>>
    /\ ySpan' = <<>>
    /\ xScale' = NullScale
    /\ yScale' = NullScale

\* loadInteractionEvents returns a promise for the two source types and
\* undefined otherwise
LoadReturnsPromise(cfg) == cfg.sourceType \in {GOOGLE_SPREADSHEET, CSV_FILE}

\* draw(): setConfig() clears and validates, throwing what validateConfig
\* throws; getInteractionEvents() starts the load, and .then of undefined
\* throws a TypeError
Draw(p) ==
    /\ running = 0
    /\ pipe[p].pc \in {"idle", "done", "failed"}
    /\ Len(dom) < MaxCanvases
    /\ ~config.useURLConfig
    /\ Clear
    /\ IF ValidateConfig(config) # NoError
       THEN /\ thrown' = ValidateConfig(config)
            /\ UNCHANGED pipe
       ELSE IF ~LoadReturnsPromise(config)
       THEN /\ thrown' = TypeError
            /\ UNCHANGED pipe
       ELSE /\ thrown' = NoError
            /\ pipe' = [pipe EXCEPT ![p] = [IdlePipe EXCEPT !.pc = "loading"]]
    /\ UNCHANGED << config, screenDimensions, settings, running >>
    /\ UNCHANGED variant

\* the page sets multiComplex.config before its first call of draw(), as the
\* README asks; later assignments are not modelled
Configure(cfg) ==
    /\ \A p \in Pipelines : pipe[p].pc = "idle"
    /\ thrown = NoError
    /\ config = DefaultConfig
    /\ cfg # config
    /\ config' = cfg
    /\ UNCHANGED << built, layout, canvas, pipe, running, thrown >>
    /\ UNCHANGED variant

\* the loader calls resolve with the rows; the reactions of the chain are queued
LoadComplete(p, rows) ==
    /\ running = 0
    /\ pipe[p].pc = "loading"
    /\ pipe' = [pipe EXCEPT ![p].pc = "setInteractionEvents", ![p].data = rows]
    /\ running' = p
    /\ UNCHANGED << config, built, layout, canvas, thrown >>
    /\ UNCHANGED variant

(***************************************************************************)
(* The reactions of the chain                                              *)
(***************************************************************************)
\* setInteractionEvents(data)
SetInteractionEvents(p) ==
    /\ running = p
    /\ pipe[p].pc = "setInteractionEvents"
    /\ IF ValidateEventData(pipe[p].data, config) = NoError
       THEN /\ interactionEvents' = pipe[p].data
            /\ Settle(p, NextStage(pipe[p].pc), NoError)
       ELSE /\ Settle(p, "rejected", ValidateEventData(pipe[p].data, config))
            /\ UNCHANGED interactionEvents
    /\ UNCHANGED << config, tracks, trackCounts, layout, canvas, thrown >>
    /\ UNCHANGED variant

\* convertInteractionEventsToTracks on the given module state: the sort,
\* buildTrackCounts and, unless it threw, getTracks
Convert(events, oldCounts, oldTracks, oldMax, cfg) ==
    LET sorted == SortEvents(events, cfg)
        st == BuildTrackCounts([trackCounts |-> oldCounts,
                                maxTrackNameLength |-> oldMax,
                                threw |-> NoError], sorted, cfg)
    IN [interactionEvents |-> sorted,
        trackCounts |-> st.trackCounts,
        maxTrackNameLength |-> st.maxTrackNameLength,
        threw |-> st.threw,
        tracks |-> IF st.threw = NoError THEN GetTracks(oldTracks, st.trackCounts)
                   ELSE oldTracks]

ConvertInteractionEventsToTracks(p) ==
    /\ running = p
    /\ pipe[p].pc = "convertInteractionEventsToTracks"
    /\ LET r == Convert(interactionEvents, trackCounts, tracks,
                        settings.maxTrackNameLength, config)
       IN /\ interactionEvents' = r.interactionEvents
          /\ trackCounts' = r.trackCounts
          /\ tracks' = r.tracks
          /\ settings' = [settings EXCEPT !.maxTrackNameLength = r.maxTrackNameLength]
          /\ IF r.threw = NoError THEN Fulfil(p) ELSE Reject(p, r.threw)
    /\ UNCHANGED << config, xSpan, ySpan, screenDimensions, canvas, thrown >>
    /\ UNCHANGED variant

\* generateSettings
GenerateSettings(p) ==
    /\ running = p
    /\ pipe[p].pc = "generateSettings"
    /\ \E viewport \in Viewports :
          /\ ySpan' = GetTrackSpan(tracks)
          /\ xSpan' = GetTimePointSpan(tracks)
          /\ screenDimensions' = GetScreenDimensions(viewport)
          /\ settings' = ComputeSettings(settings, config, GetScreenDimensions(viewport),
                                          GetTimePointSpan(tracks), GetTrackSpan(tracks))
    /\ Fulfil(p)
    /\ UNCHANGED << config, built, canvas, thrown >>
    /\ UNCHANGED variant

\* setupCanvas: an svg is appended to the element config.selector matches;
\* when it matches none, canvasArea is an empty selection
SetupCanvas(p) ==
    /\ running = p
    /\ pipe[p].pc = "setupCanvas"
    /\ IF config.selector \in DocumentSelectors
       THEN /\ dom' = [i \in 1..Len(dom) |-> [dom[i] EXCEPT !.held = FALSE]] \o
                      << [owner |-> p, held |-> TRUE,
                          width |-> settings.outerWidth, height |-> settings.outerHeight,
                          timeAxis |-> FALSE, trackLabels |-> 0] >>
            /\ canvasArea' = "selection"
            /\ graphArea' = "selection"
       ELSE /\ dom' = [i \in 1..Len(dom) |-> [dom[i] EXCEPT !.held = FALSE]]
            /\ canvasArea' = "empty"
            /\ graphArea' = "empty"
    /\ xScale' = [k |-> "scale", domain |-> xSpan,
                  range |-> << JsInt(0), settings.innerWidth >>]
    /\ yScale' = [k |-> "scale", domain |-> ySpan,
                  range |-> << settings.innerHeight, JsInt(0) >>]
    /\ Fulfil(p)
    /\ UNCHANGED << config, built, layout, thrown >>
    /\ UNCHANGED variant

\* drawTimeAxis: the axis path and its label are appended to graphArea
DrawTimeAxis(p) ==
    /\ running = p
    /\ pipe[p].pc = "drawTimeAxis"
    /\ dom' = [i \in 1..Len(dom) |->
                  IF dom[i].held THEN [dom[i] EXCEPT !.timeAxis = TRUE] ELSE dom[i]]
    /\ Fulfil(p)
    /\ UNCHANGED << config, built, layout, canvasArea, graphArea, xScale, yScale, thrown >>
    /\ UNCHANGED variant

\* the tracks drawTracks draws before addTrackLabel reads interactions[0] of
\* a track without interactions
DrawableTracks(ts) ==
    IF \E i \in 1..Len(ts) : ts[i].interactions = <<>>
    THEN (CHOOSE i \in 1..Len(ts) :
             /\ ts[i].interactions = <<>>
             /\ \A j \in 1..(i - 1) : ts[j].interactions # <<>>) - 1
    ELSE Len(ts)

\* drawTracks: label, path, points and point labels of every track
DrawTracks(p) ==
    /\ running = p
    /\ pipe[p].pc = "drawTracks"
    /\ dom' = [i \in 1..Len(dom) |->
                  IF dom[i].held THEN [dom[i] EXCEPT !.trackLabels = DrawableTracks(tracks)]
                  ELSE dom[i]]
    /\ IF DrawableTracks(tracks) = Len(tracks) THEN Fulfil(p) ELSE Reject(p, TypeError)
    /\ UNCHANGED << config, built, layout, canvasArea, graphArea, xScale, yScale, thrown >>
    /\ UNCHANGED variant

\* toConsoleError: the catch reaction logs the error
ToConsoleError(p) ==
    /\ running = p
    /\ pipe[p].pc = "rejected"
    /\ pipe' = [pipe EXCEPT ![p].pc = "failed"]
    /\ running' = 0
    /\ UNCHANGED << config, built, layout, canvas, thrown >>
    /\ UNCHANGED variant

(***************************************************************************)
(* Specifications                                                          *)
(***************************************************************************)
\* the page: any configuration, overlapping draw() calls, the sample sheets
Next ==
    \/ \E p \in Pipelines : Draw(p)
    \/ \E cfg \in Configs : Configure(cfg)
    \/ \E p \in Pipelines : \E rows \in SampleSheets : LoadComplete(p, rows)
    \/ \E p \in Pipelines : SetInteractionEvents(p)
    \/ \E p \in Pipelines : ConvertInteractionEventsToTracks(p)
    \/ \E p \in Pipelines : GenerateSettings(p)
    \/ \E p \in Pipelines : SetupCanvas(p)
    \/ \E p \in Pipelines : DrawTimeAxis(p)
    \/ \E p \in Pipelines : DrawTracks(p)
    \/ \E p \in Pipelines : ToConsoleError(p)

Spec == Init /\ [][Next]_vars

\* one draw cycle from the state after construction, over every row list
InitCycle == Init

DrawOnce ==
    /\ pipe[1].pc = "idle"
    /\ Draw(1)

NextCycle ==
    \/ \E cfg \in LoadingConfigs : Configure(cfg)
    \/ DrawOnce
    \/ \E rows \in AllRowLists : LoadComplete(1, rows)
    \/ SetInteractionEvents(1)
    \/ ConvertInteractionEventsToTracks(1)
    \/ GenerateSettings(1)
    \/ SetupCanvas(1)
    \/ DrawTimeAxis(1)
    \/ DrawTracks(1)
    \/ ToConsoleError(1)

SpecCycle == InitCycle /\ [][NextCycle]_vars

\* draw cycles one after the other, each called when the one before has
\* finished, over the sheets
InitSheets == Init

NextSheets ==
    \/ \E cfg \in SheetConfigs : Configure(cfg)
    \/ Draw(1)
    \/ \E rows \in Sheets : LoadComplete(1, rows)
    \/ SetInteractionEvents(1)
    \/ ConvertInteractionEventsToTracks(1)
    \/ GenerateSettings(1)
    \/ SetupCanvas(1)
    \/ DrawTimeAxis(1)
    \/ DrawTracks(1)
    \/ ToConsoleError(1)

SpecSheets == InitSheets /\ [][NextSheets]_vars

\* draw cycles one after the other under a configuration of ConfigTries
InitConfig == Init

NextConfig ==
    \/ \E cfg \in ConfigTries : Configure(cfg)
    \/ Draw(1)
    \/ \E rows \in Sheets : LoadComplete(1, rows)
    \/ SetInteractionEvents(1)
    \/ ConvertInteractionEventsToTracks(1)
    \/ GenerateSettings(1)
    \/ SetupCanvas(1)
    \/ DrawTimeAxis(1)
    \/ DrawTracks(1)
    \/ ToConsoleError(1)

SpecConfig == InitConfig /\ [][NextConfig]_vars

(***************************************************************************)
(* The earlier variant of the module: processData builds the tracks one at *)
(* a time, each from the protein with the greatest count among the events  *)
(* that remain (buildTracks).                                              *)
(***************************************************************************)
\* config of the variant as constructed: the columns and the ratios
GreedyConfig ==
    [eventOrderColumn |-> "Order",
     proteinA |-> "Protein A",
     proteinB |-> "Protein B",
     xRatio |-> Num(1, 2),
     yRatio |-> Num(1, 2),
     outerWidth |-> Null,
     outerHeight |-> Null]

\* validateConfig of the variant
GreedyValidateConfig(cfg) ==
    /\ \/ (Greater(cfg.xRatio, JsInt(0)) /\ LessEq(cfg.xRatio, JsInt(1)))
       \/ Greater(cfg.outerWidth, JsInt(0))
    /\ \/ (Greater(cfg.yRatio, JsInt(0)) /\ LessEq(cfg.yRatio, JsInt(1)))
       \/ Greater(cfg.outerHeight, JsInt(0))
    /\ cfg.eventOrderColumn # "" /\ cfg.proteinA # "" /\ cfg.proteinB # ""

\* validateEventData of the variant: the first row has its three cells
GreedyValidateEventData(data, cfg) ==
    /\ Len(data) > 0
    /\ ToBoolean(RowGet(data[1], cfg.eventOrderColumn))
    /\ ToBoolean(RowGet(data[1], cfg.proteinA))
    /\ ToBoolean(RowGet(data[1], cfg.proteinB))

\* the count proteinCounts holds for a key, 0 when it has none
CountOf(counts, key) == IF HasKey(counts, key) THEN Entry(counts, key).count ELSE 0

\* addProteinCount
AddProteinCount(counts, proteinName) ==
    LET key == ToPropertyKey(proteinName)
    IN PutProperty(counts, [protein |-> key,
                            count |-> IF CountOf(counts, key) # 0
                                      THEN CountOf(counts, key) + 1 ELSE 1])

\* buildProteinCounts: both proteins of every row of eventData
RECURSIVE BuildProteinCounts(_, _, _)
BuildProteinCounts(counts, events, cfg) ==
    IF events = <<>> THEN counts
    ELSE LET before == BuildProteinCounts(counts, SubSeq(events, 1, Len(events) - 1), cfg)
             event == events[Len(events)]
         IN AddProteinCount(AddProteinCount(before, RowGet(event, cfg.proteinA)),
                            RowGet(event, cfg.proteinB))

\* Object.keys(proteinCounts).sort by descending count; the sort is stable
RECURSIVE SortByCount(_, _)
SortByCount(keys, counts) ==
    IF Len(keys) <= 1 THEN keys
    ELSE LET head == SortByCount(SubSeq(keys, 1, Len(keys) - 1), counts)
             last == keys[Len(keys)]
             after == {i \in 1..Len(head) : CountOf(counts, last) - CountOf(counts, head[i]) <= 0}
             pos == IF after = {} THEN 0 ELSE CHOOSE i \in after : \A j \in after : j <= i
         IN SubSeq(head, 1, pos) \o <<last>> \o SubSeq(head, pos + 1, Len(head))

\* getProteinOrder: the counts are built when proteinOrder is empty
GetProteinOrder(counts, order, events, cfg) ==
    LET built1 == IF order = <<>> THEN BuildProteinCounts(counts, events, cfg) ELSE counts
    IN [proteinCounts |-> built1, proteinOrder |-> SortByCount(Keys(built1), built1)]

\* deleteProteinCount
DeleteProteinCount(counts, proteinName) ==
    LET key == ToPropertyKey(proteinName)
    IN IF CountOf(counts, key) > 0
       THEN PutProperty(counts, [protein |-> key, count |-> CountOf(counts, key) - 1])
       ELSE DeleteProperty(counts, key)

\* data[column] == trackName: a cell equals the key only when it is that string
CellIs(cell, trackName) == cell.k = "string" /\ cell.s = trackName

\* getInteractionName: the other protein of a row of trackName, else data[""]
GetInteractionName(data, trackName, cfg) ==
    IF CellIs(RowGet(data, cfg.proteinA), trackName) THEN RowGet(data, cfg.proteinB)
    ELSE IF CellIs(RowGet(data, cfg.proteinB), trackName) THEN RowGet(data, cfg.proteinA)
    ELSE RowGet(data, "")

\* eventsToInterations without the step back after the splice: the row that
\* follows a row made into an interaction is passed over
RECURSIVE EventsToInterationsSkipping(_, _, _, _, _)
EventsToInterationsSkipping(st, events, trackNumber, trackName, cfg) ==
    IF events = <<>> THEN st
    ELSE LET event == Head(events)
             interactionName == GetInteractionName(event, trackName, cfg)
             passed == IF Len(events) > 1 THEN << events[2] >> ELSE <<>>
         IN IF ToBoolean(interactionName)
            THEN EventsToInterationsSkipping(
                     [eventData |-> st.eventData \o passed,
                      interactions |-> Append(st.interactions,
                          [trackNumber |-> trackNumber,
                           name |-> interactionName.s,
                           order |-> ToNumber(RowGet(event, cfg.eventOrderColumn))]),
                      proteinCounts |-> DeleteProteinCount(
                          DeleteProteinCount(st.proteinCounts, Str(trackName)),
                          interactionName)],
                     SubSeq(events, 3, Len(events)), trackNumber, trackName, cfg)
            ELSE EventsToInterationsSkipping(
                     [st EXCEPT !.eventData = Append(st.eventData, event)],
                     Tail(events), trackNumber, trackName, cfg)

\* eventsToInterations over the rows from the first: a row with an
\* interaction name is spliced out of eventData and both counts go down
RECURSIVE EventsToInterations(_, _, _, _, _)
EventsToInterations(st, events, trackNumber, trackName, cfg) ==
    IF events = <<>> THEN st
    ELSE LET event == Head(events)
             interactionName == GetInteractionName(event, trackName, cfg)
             next ==
                 IF ToBoolean(interactionName)
                 THEN [eventData |-> st.eventData,
                       interactions |-> Append(st.interactions,
                           [trackNumber |-> trackNumber,
                            name |-> interactionName.s,
                            order |-> ToNumber(RowGet(event, cfg.eventOrderColumn))]),
                       proteinCounts |-> DeleteProteinCount(
                           DeleteProteinCount(st.proteinCounts, Str(trackName)),
                           interactionName)]
                 ELSE [st EXCEPT !.eventData = Append(st.eventData, event)]
         IN EventsToInterations(next, Tail(events), trackNumber, trackName, cfg)

\* clear() and validate(data) of processData, then eventsToTracks up to the
\* first test of the loop of buildTracks
ProcessData(data) ==
    /\ step \in {"idle", "built", "threw"}
    /\ processed' = data
    /\ eventData' = IF GreedyValidateConfig(GreedyConfig) THEN data ELSE <<>>
    /\ greedyTracks' = <<>>
    /\ interactions' = <<>>
    /\ proteinCounts' = <<>>
    /\ proteinOrder' = <<>>
    /\ IF GreedyValidateConfig(GreedyConfig) /\ GreedyValidateEventData(data, GreedyConfig)
       THEN /\ step' = "buildTracks"
            /\ greedySpans' =
                  [xSpan |-> LET orders == [i \in 1..Len(data) |->
                                               ToNumber(RowGet(data[i], GreedyConfig.eventOrderColumn))]
                             IN << D3Min(orders), D3Max(orders) >>,
                   ySpan |-> <<>>]
       ELSE /\ step' = "threw"
            /\ greedySpans' = [xSpan |-> <<>>, ySpan |-> <<>>]
    /\ UNCHANGED greedySettings
    /\ UNCHANGED << config, built, layout, canvas, pipe, running, thrown >>

\* one turn of the loop of buildTracks: a track for proteinOrder[0] and the
\* interactions of its rows
BuildTracksTurn ==
    /\ step = "buildTracks"
    /\ eventData # <<>>
    /\ Len(greedyTracks) < MaxGreedyTracks
    /\ LET o == GetProteinOrder(proteinCounts, proteinOrder, eventData, GreedyConfig)
           trackName == o.proteinOrder[1]
           trackNumber == Len(greedyTracks)
           r == EventsToInterations([eventData |-> <<>>, interactions |-> interactions,
                                     proteinCounts |-> o.proteinCounts],
                                    eventData, trackNumber, trackName, GreedyConfig)
       IN /\ proteinOrder' = o.proteinOrder
          /\ greedyTracks' = Append(greedyTracks,
                                    [trackName |-> trackName, trackNumber |-> trackNumber])
          /\ greedySettings' =
                IF greedySettings.maxTrackNameLength < Len(trackName)
                THEN [greedySettings EXCEPT !.maxTrackNameLength = Len(trackName)]
                ELSE greedySettings
          /\ eventData' = r.eventData
          /\ interactions' = r.interactions
          /\ proteinCounts' = r.proteinCounts
    /\ UNCHANGED << greedySpans, processed, step >>
    /\ UNCHANGED << config, built, layout, canvas, pipe, running, thrown >>

\* buildTracks returns [0, tracks.length] when no row is left
BuildTracksReturn ==
    /\ step = "buildTracks"
    /\ eventData = <<>>
    /\ greedySpans' = [greedySpans EXCEPT !.ySpan = << JsInt(0), JsInt(Len(greedyTracks)) >>]
    /\ step' = "built"
    /\ UNCHANGED << eventData, proteinCounts, proteinOrder, greedyTracks, interactions,
                    greedySettings, processed >>
    /\ UNCHANGED << config, built, layout, canvas, pipe, running, thrown >>

\* the variant alone, over every list of rows
InitGreedy == Init

\* processData of the first load
ProcessOnce(data) ==
    /\ step = "idle"
    /\ ProcessData(data)

NextGreedy ==
    \/ \E data \in GreedyLists : ProcessOnce(data)
    \/ BuildTracksTurn
    \/ BuildTracksReturn

SpecGreedy == InitGreedy /\ [][NextGreedy]_vars

(***************************************************************************)
(* Properties                                                              *)
(***************************************************************************)
ConvertStage == "convertInteractionEventsToTracks"

\* the reactions after convertInteractionEventsToTracks
AfterConvert == {"generateSettings", "setupCanvas", "drawTimeAxis", "drawTracks", "done"}

\* the reactions after generateSettings
AfterSettings == {"setupCanvas", "drawTimeAxis", "drawTracks", "done"}

\* convertInteractionEventsToTracks of chain p returned normally
ConvertFulfilled(p) == pipe[p].pc \in AfterConvert

\* convertInteractionEventsToTracks of chain p has run
ConvertRan(p) == ConvertFulfilled(p) \/ pipe[p].threwAt = ConvertStage

NameOf(row, column) == ToPropertyKey(RowGet(row, column))

\* the participants of the rows and the distinct partners of one of them,
\* read off the rows
ParticipantsOf(rows, cfg) ==
    {NameOf(rows[i], cfg.proteinAColumn) : i \in 1..Len(rows)} \cup
    {NameOf(rows[i], cfg.proteinBColumn) : i \in 1..Len(rows)}

PartnersOf(rows, cfg, name) ==
    {NameOf(rows[i], cfg.proteinBColumn) :
        i \in {j \in 1..Len(rows) : NameOf(rows[j], cfg.proteinAColumn) = name}} \cup
    {NameOf(rows[i], cfg.proteinAColumn) :
        i \in {j \in 1..Len(rows) : NameOf(rows[j], cfg.proteinBColumn) = name}}

\* the place of the first mention of a participant in the rows: protein A
\* of a row before its protein B
FirstSeen(rows, cfg, name) ==
    CHOOSE n \in 1..(2 * Len(rows)) :
        /\ NameOf(rows[(n + 1) \div 2],
                  IF n % 2 = 1 THEN cfg.proteinAColumn ELSE cfg.proteinBColumn) = name
        /\ \A m \in 1..(n - 1) :
              NameOf(rows[(m + 1) \div 2],
                     IF m % 2 = 1 THEN cfg.proteinAColumn ELSE cfg.proteinBColumn) # name

TracksOf(name) == {i \in 1..Len(tracks) : tracks[i].protein = name}

\* C1: every track of a draw cycle has at least minimumInteractionCount
\* interactions, also when a pair of participants appears in several events.
C1_TracksMeetMinimum ==
    ConvertFulfilled(1) =>
        \A i \in 1..Len(tracks) :
            GreaterEq(JsInt(Len(tracks[i].interactions)), config.minimumInteractionCount)

\* C2: with removeDuplicateInteractions off, the trackCount of a participant
\* is the number of its distinct partners in the rows.
C2_CountIsDistinctPartners ==
    (ConvertFulfilled(1) /\ config.removeDuplicateInteractions # "true") =>
        \A i \in 1..Len(trackCounts) :
            trackCounts[i].trackCount =
                Cardinality(PartnersOf(interactionEvents, config, trackCounts[i].protein))

\* C3: with removeDuplicateInteractions "true" and the rows of ScenarioC
\* (X with five partners, Y with two, X and Y sharing an event), track
\* construction completes, Y no longer lists X, X still lists Y, and the
\* count of Y is one less than its two partners.
C3_ScenarioCResolved ==
    \A p \in Pipelines :
        ( /\ config.removeDuplicateInteractions = "true"
          /\ config.minimumInteractionCount = JsInt(1)
          /\ interactionEvents = ScenarioC
          /\ running = p
          /\ ConvertRan(p)
          /\ \A q \in Pipelines \ {p} : pipe[q].pc = "idle" ) =>
        ( /\ ConvertFulfilled(p)
          /\ HasKey(trackCounts, <<"X">>)
          /\ HasKey(trackCounts, <<"Y">>)
          /\ HasKey(Entry(trackCounts, <<"X">>).interactions, <<"Y">>)
          /\ ~HasKey(Entry(trackCounts, <<"Y">>).interactions, <<"X">>)
          /\ Entry(trackCounts, <<"Y">>).trackCount = 1 )

\* C4: with removeDuplicateInteractions off, a participant has a track
\* exactly when it has at least minimumInteractionCount distinct partners,
\* and then it has one track.
C4_TrackIffEnoughPartners ==
    (ConvertFulfilled(1) /\ config.removeDuplicateInteractions # "true") =>
        \A name \in ParticipantsOf(interactionEvents, config) :
            Cardinality(TracksOf(name)) =
                IF GreaterEq(JsInt(Cardinality(PartnersOf(interactionEvents, config, name))),
                             config.minimumInteractionCount)
                THEN 1 ELSE 0

\* C5: the tracks are in order of non-increasing number of interactions, and
\* tracks with equally many interactions are in the order in which their
\* participants are first seen in the sorted rows, whatever the names are.
C5_TracksOrderedFirstSeen ==
    ConvertFulfilled(1) =>
        \A i \in 1..Len(tracks) : \A j \in (i + 1)..Len(tracks) :
            /\ Len(tracks[i].interactions) >= Len(tracks[j].interactions)
            /\ Len(tracks[i].interactions) = Len(tracks[j].interactions) =>
                  FirstSeen(interactionEvents, config, tracks[i].protein)
                      < FirstSeen(interactionEvents, config, tracks[j].protein)

\* C6: when no participant meets minimumInteractionCount, track construction
\* raises an error and no later reaction of the cycle is executed.
C6_EmptyTracksAbort ==
    \A p \in Pipelines :
        (ConvertRan(p) /\ tracks = <<>>) => pipe[p].threwAt = ConvertStage

NotANumber(v) == v.k \in {"NaN", "Infinity"}

\* the computed settings
ComputedSettings ==
    { settings.outerWidth, settings.outerHeight, settings.trackStrokeWidth,
      settings.interactionPointRadius, settings.trackLabelWidth,
      settings.interactionLabelHeight, settings.xRatio, settings.yRatio,
      settings.margin.left, settings.margin.top, settings.margin.right,
      settings.margin.bottom, settings.yLabelOffset, settings.xLabelOffset,
      settings.innerWidth, settings.innerHeight }

\* C7: generateSettings does not return normally with no track or with an
\* order span of 0, and no computed setting is ever NaN or infinite.
C7_NoDegenerateLayout ==
    /\ \A v \in ComputedSettings : ~NotANumber(v)
    /\ \A p \in Pipelines :
          pipe[p].pc \in AfterSettings =>
              /\ Len(tracks) # 0
              /\ Sub(xSpan[2], xSpan[1]) # JsInt(0)

\* the tracks of one draw() over rows, from the state after construction
FreshTracks(rows, cfg) == Convert(rows, <<>>, <<>>, 0, cfg).tracks

\* C8: whatever draw() calls and load completions interleave, once every
\* load has completed the tracks are those of a single draw() over the rows
\* of the chain that ran last.
C8_TracksOfLastChainOnly ==
    \A p \in Pipelines :
        ( /\ running = p
          /\ ConvertFulfilled(p)
          /\ \A q \in Pipelines \ {p} : pipe[q].pc # "loading" ) =>
        tracks = FreshTracks(interactionEvents, config)

\* the settings of one draw() over rows, from the state after construction
FreshSettings(rows, cfg, screen) ==
    LET r == Convert(rows, <<>>, <<>>, 0, cfg)
    IN ComputeSettings([InitialSettings EXCEPT !.maxTrackNameLength = r.maxTrackNameLength],
                       cfg, screen, GetTimePointSpan(r.tracks), GetTrackSpan(r.tracks))

\* C9: after any history of completed draw cycles, the settings of the last
\* cycle are those its rows, configuration and viewport give from the state
\* after construction.
C9_SettingsOfThisCycleOnly ==
    \A p \in Pipelines :
        ( /\ running = p
          /\ pipe[p].pc = "setupCanvas"
          /\ \A q \in Pipelines \ {p} : pipe[q].pc = "idle" ) =>
        settings = FreshSettings(interactionEvents, config, screenDimensions)

\* C10: when a draw cycle has ended in an error, no svg that cycle appended
\* is attached to the document.
C10_NoCanvasOfFailedCycle ==
    \A p \in Pipelines :
        pipe[p].pc \in {"rejected", "failed"} =>
            \A i \in 1..Len(dom) : dom[i].owner # p

\* a cycle has ended in an error while the canvas of another cycle is attached
C10_Witness ==
    \E p \in Pipelines :
        /\ pipe[p].pc = "failed"
        /\ pipe[p].err # NoError
        /\ \E i \in 1..Len(dom) : dom[i].owner \notin {0, p}

SetEventsStage == "setInteractionEvents"

DataShapeError == "Data loaded does not match config settings"

\* C11: a load that delivers no rows makes the cycle fail in
\* setInteractionEvents with the data-shape error: no chain gets past
\* setInteractionEvents with an empty row list, and the failed cycle has
\* stored no events and built no counts, tracks, spans, settings or canvas.
C11_EmptyRowsFail ==
    /\ pipe[1].pc \in ({ConvertStage} \cup AfterConvert) => interactionEvents # <<>>
    /\ pipe[1].threwAt = SetEventsStage =>
          /\ pipe[1].err = DataShapeError
          /\ interactionEvents = <<>>
          /\ trackCounts = <<>>
          /\ tracks = <<>>
          /\ xSpan = <<>> /\ ySpan = <<>>
          /\ settings = InitialSettings
          /\ dom = <<>>

\* the catch reaction has logged the error of the empty row list
C11_Witness ==
    /\ pipe[1].pc = "failed"
    /\ pipe[1].threwAt = SetEventsStage
    /\ pipe[1].err = DataShapeError
    /\ interactionEvents = <<>>

ConfiguredColumns(cfg) == {cfg.timePointColumn, cfg.proteinAColumn, cfg.proteinBColumn}

\* a row lacks a column when it has no cell for it or the cell is empty
RowLacks(row, column) == column \notin DOMAIN row \/ row[column].s = <<>>

RowComplete(row, cfg) == \A column \in ConfiguredColumns(cfg) : ~RowLacks(row, column)

\* C12: validation looks at the first row only: setInteractionEvents fails
\* with the data-shape error exactly when the row list is empty or its first
\* row lacks a configured column, and otherwise stores the rows as they came,
\* whatever the later rows lack.
C12_FirstRowOnly ==
    [][SetInteractionEvents(1) =>
          IF pipe[1].data # <<>> /\ RowComplete(pipe[1].data[1], config)
          THEN /\ pipe'[1].pc = ConvertStage
               /\ interactionEvents' = pipe[1].data
          ELSE /\ pipe'[1].pc = "rejected"
               /\ pipe'[1].err = DataShapeError
               /\ interactionEvents' = interactionEvents]_vars

\* rows with a later row that lacks a column have been accepted and stored
C12_Witness ==
    /\ pipe[1].pc = ConvertStage
    /\ \E i \in 2..Len(interactionEvents) : ~RowComplete(interactionEvents[i], config)

InDocumentedRange(v) == Greater(v, JsInt(0)) /\ LessEq(v, JsInt(1))

\* xRatio or yRatio is configured (not null) with a value outside 0 < v <= 1
RatioOutOfRange(cfg) ==
    \E v \in {cfg.xRatio, cfg.yRatio} : v.k # "null" /\ ~InDocumentedRange(v)

ConfigErrors ==
    {"Config screenProportion settings are invalid",
     "Config Width settings are invalid",
     "Config Height settings are invalid",
     "Config minimumInteractionCount settings are invalid",
     "Config import column settings are invalid",
     "Config selector settings are invalid"}

\* C13: when xRatio or yRatio is configured outside 0 < v <= 1, draw()
\* throws a configuration error and starts no load, whatever the other
\* configuration values are (outerWidth and outerHeight included).
C13_RatioOutOfRangeRejected ==
    [][(Draw(1) /\ RatioOutOfRange(config)) =>
          (thrown' \in ConfigErrors /\ pipe'[1].pc = "idle")]_vars

\* screenProportion outside (0, 1], minimumInteractionCount below 1 or a
\* blank column name
BasicsOutOfRange(cfg) ==
    \/ ~InDocumentedRange(cfg.screenProportion)
    \/ Less(cfg.minimumInteractionCount, JsInt(1))
    \/ \E column \in ConfiguredColumns(cfg) : column = ""

\* C14: with screenProportion outside (0, 1], minimumInteractionCount below
\* 1 or a blank column name, draw() throws a configuration error before any
\* load is started: no chain exists afterwards, interactionEvents,
\* trackCounts and tracks are empty and no canvas is attached.
C14_InvalidConfigThrowsBeforeLoad ==
    [][(Draw(1) /\ BasicsOutOfRange(config)) =>
          /\ thrown' \in ConfigErrors
          /\ \A p \in Pipelines : pipe'[p] = IdlePipe
          /\ interactionEvents' = <<>>
          /\ trackCounts' = <<>>
          /\ tracks' = <<>>
          /\ dom' = <<>>]_vars

\* draw() has thrown for such a configuration
C14_Witness ==
    /\ BasicsOutOfRange(config)
    /\ thrown \in ConfigErrors
    /\ \A p \in Pipelines : pipe[p] = IdlePipe

\* the order cell of the row does not convert to a number
OrderNotNumeric(row, cfg) == ToNumber(RowGet(row, cfg.timePointColumn)).k = "NaN"

\* C15: when the order of some row is not numeric, the cycle ends in an
\* error thrown by convertInteractionEventsToTracks (the sort and the
\* grouping), and no tracks, settings or canvas come from those rows.
C15_NonNumericOrderFails ==
    (/\ ConvertRan(1)
     /\ \E i \in 1..Len(interactionEvents) : OrderNotNumeric(interactionEvents[i], config)) =>
        /\ pipe[1].threwAt = ConvertStage
        /\ tracks = <<>>
        /\ dom = <<>>

\* C16: the interactions of every track are listed in order of occurrence:
\* no interaction of a track has a smaller order than one listed before it,
\* so interactions[0] carries the smallest order of the track.
C16_InteractionsInOrder ==
    ConvertFulfilled(1) =>
        \A t \in 1..Len(tracks) :
            \A i, j \in 1..Len(tracks[t].interactions) :
                i < j => ~Greater(tracks[t].interactions[i].timePoint,
                                  tracks[t].interactions[j].timePoint)

\* C17: draw cycles run one after the other give the same tracks for the
\* same rows and configuration: the tracks of every cycle, their order and
\* their interaction lists are those a first cycle builds from the rows,
\* whatever the cycles before it processed.
C17_SameRowsSameTracks ==
    ConvertFulfilled(1) => tracks = FreshTracks(interactionEvents, config)

\* a later cycle has built its tracks: the settings are still those an
\* earlier cycle computed
C17_Witness ==
    /\ pipe[1].pc = "generateSettings"
    /\ tracks # <<>>
    /\ settings.innerWidth.k = "number"
    /\ xSpan = <<>>

\* the inner size of the window getScreenDimensions measured
ViewportWidth == Add(screenDimensions.width, JsInt(ScrollbarWidth))

ViewportHeight == Add(screenDimensions.height, JsInt(ScrollbarWidth))

\* C18: without an outerWidth/outerHeight override and with at least one
\* track, settings.xRatio <= screenProportion and settings.yRatio <=
\* screenProportion after generateSettings, hence outerWidth <=
\* screenProportion x viewport width and outerHeight <= screenProportion x
\* viewport height.
C18_RatiosWithinProportion ==
    (/\ pipe[1].pc \in AfterSettings
     /\ ~ToBoolean(config.outerWidth)
     /\ ~ToBoolean(config.outerHeight)
     /\ tracks # <<>>) =>
        /\ LessEq(settings.xRatio, config.screenProportion)
        /\ LessEq(settings.yRatio, config.screenProportion)
        /\ LessEq(settings.outerWidth, Mul(config.screenProportion, ViewportWidth))
        /\ LessEq(settings.outerHeight, Mul(config.screenProportion, ViewportHeight))

\* the (coerced) orders of the events of the pair {a, b}, in the order the
\* events are processed
PairOrders(rows, cfg, a, b) ==
    LET OfPair(row) == {NameOf(row, cfg.proteinAColumn), NameOf(row, cfg.proteinBColumn)} = {a, b}
        events == SelectSeq(rows, OfPair)
    IN [i \in 1..Len(events) |-> ToNumber(RowGet(events[i], cfg.timePointColumn))]

\* C19: a track holds one interaction per distinct partner, and the order
\* stored for a partner is the order of the last event of the pair in the
\* sorted event list, which is the greatest order among the events of the
\* pair: no event of the pair has a numeric order above it.
C19_LastWriteIsGreatest ==
    ConvertFulfilled(1) =>
        \A t \in 1..Len(tracks) :
            LET track == tracks[t]
                partner(i) == track.interactions[i].protein
                orders(i) == PairOrders(interactionEvents, config, track.protein, partner(i))
            IN /\ \A i, j \in 1..Len(track.interactions) : partner(i) = partner(j) => i = j
               /\ {partner(i) : i \in 1..Len(track.interactions)} =
                      PartnersOf(interactionEvents, config, track.protein)
               /\ \A i \in 1..Len(track.interactions) :
                     /\ orders(i) # <<>>
                     /\ track.interactions[i].timePoint = orders(i)[Len(orders(i))]
                     /\ \A k \in 1..Len(orders(i)) :
                           orders(i)[k].k = "number" =>
                               LessEq(orders(i)[k], track.interactions[i].timePoint)


\* C20: once the track counts are built and duplicates resolved, the
\* trackCount of every surviving participant equals the number of keys of
\* its interactions object, also when a pair interacts more than once.
C20_CountEqualsPartners ==
    ConvertFulfilled(1) =>
        \A i \in 1..Len(trackCounts) :
            trackCounts[i].trackCount = Len(trackCounts[i].interactions)


\* C21: duplicate resolution removes a mirrored edge from at most one side:
\* when B, a partner of A in the rows, is no longer a key of A's
\* interactions after the pass, A is still a key of B's interactions.
C21_ReverseEdgeKept ==
    (ConvertFulfilled(1) /\ config.removeDuplicateInteractions = "true") =>
        \A i, j \in 1..Len(trackCounts) :
            LET a == trackCounts[i]
                b == trackCounts[j]
            IN (b.protein \in PartnersOf(interactionEvents, config, a.protein)
                    /\ ~HasKey(a.interactions, b.protein))
                   => HasKey(b.interactions, a.protein)

\* the pass of removeDuplicateInteractions never gets as far as a removal:
\* with removeDuplicateInteractions "true" track construction does not
\* complete
C21_PassNeverCompletes ==
    config.removeDuplicateInteractions = "true" => ~ConvertFulfilled(1)


\* generateSettings of chain p has returned and the chain is still running:
\* nothing has touched tracks or settings since
SettingsFresh(p) == pipe[p].pc \in {"setupCanvas", "drawTimeAxis", "drawTracks"}

\* the orders of the displayed interactions that are numbers
DisplayedOrders ==
    UNION {{tracks[t].interactions[i].timePoint : i \in 1..Len(tracks[t].interactions)} :
              t \in 1..Len(tracks)}

NumericOrders == {o \in DisplayedOrders : o.k \in {"number", "Infinity"}}

\* the greatest and the least displayed order, undefined when there is none
GreatestOrder ==
    IF NumericOrders = {} THEN Undefined
    ELSE CHOOSE m \in NumericOrders : \A o \in NumericOrders : LessEq(o, m)

LeastOrder ==
    IF NumericOrders = {} THEN Undefined
    ELSE CHOOSE m \in NumericOrders : \A o \in NumericOrders : LessEq(m, o)

\* min(round(outerWidth / (orderTerm x 5)), round(outerHeight / (trackCount x 8)))
RadiusFor(orderTerm) ==
    MathMin(MathRound(Div(settings.outerWidth, Mul(orderTerm, JsInt(5)))),
            MathRound(Div(settings.outerHeight, Mul(JsInt(Len(tracks)), JsInt(8)))))

\* C22 as stated: trackStrokeWidth and interactionPointRadius are both
\* min(round(outerWidth / (orderSpan x 5)), round(outerHeight / (trackCount x 8)))
\* with orderSpan the span max - min of the displayed orders.
C22_RadiusFromOrderSpan ==
    SettingsFresh(1) =>
        /\ settings.trackStrokeWidth = RadiusFor(Sub(GreatestOrder, LeastOrder))
        /\ settings.interactionPointRadius = settings.trackStrokeWidth

\* C22 amended: trackStrokeWidth and interactionPointRadius are both
\* min(round(outerWidth / (maxOrder x 5)), round(outerHeight / (trackCount x 8)))
\* with maxOrder the greatest displayed order (xSpan[1]), whatever the least.
C22_RadiusFromGreatestOrder ==
    SettingsFresh(1) =>
        /\ settings.trackStrokeWidth = RadiusFor(GreatestOrder)
        /\ settings.interactionPointRadius = settings.trackStrokeWidth

\* generateSettings ran on tracks whose least order is not 0 and the term of
\* the width is the one that decides the radius
C22_Witness ==
    /\ pipe[1].pc = "setupCanvas"
    /\ tracks # <<>>
    /\ LeastOrder.k = "number" /\ LeastOrder # JsInt(0)
    /\ settings.trackStrokeWidth.k = "number"
    /\ settings.trackStrokeWidth # RadiusFor(Sub(GreatestOrder, LeastOrder))


TwiceRadius == Mul(JsInt(2), settings.interactionPointRadius)

\* right = 2 x radius and left = 2 x radius + (trackLabelWidth + 2 x radius)
HorizontalMargins ==
    /\ settings.margin.right = TwiceRadius
    /\ settings.margin.left = Add(TwiceRadius, Add(settings.trackLabelWidth, TwiceRadius))

\* C23 as stated: right = 2 x radius, left = 2 x radius + (trackLabelWidth +
\* 2 x radius), and the top and bottom margins reserve more than 2 x radius,
\* the extra being the offset of the time-axis label.
C23_VerticalMarginsReserveLabel ==
    (SettingsFresh(1) /\ Greater(settings.interactionPointRadius, JsInt(0))) =>
        /\ HorizontalMargins
        /\ Greater(settings.margin.top, TwiceRadius)
        /\ Greater(settings.margin.bottom, TwiceRadius)

\* C23 amended: right = 2 x radius, left = 2 x radius + (trackLabelWidth +
\* 2 x radius), and the top and bottom margins are exactly 2 x radius.
C23_MarginsOfRadius ==
    SettingsFresh(1) =>
        /\ HorizontalMargins
        /\ settings.margin.top = TwiceRadius
        /\ settings.margin.bottom = TwiceRadius

\* generateSettings ran with a radius above 0 and a track label to reserve
\* room for
C23_Witness ==
    /\ pipe[1].pc = "setupCanvas"
    /\ Greater(settings.interactionPointRadius, JsInt(0))
    /\ Greater(settings.trackLabelWidth, JsInt(0))
    /\ Greater(settings.yLabelOffset, JsInt(0))
    /\ settings.margin.top = TwiceRadius


\* the length of the longest name among the output tracks
LongestTrackName ==
    LET lengths == {Len(tracks[t].protein) : t \in 1..Len(tracks)}
    IN CHOOSE m \in lengths : \A n \in lengths : n <= m

\* C24: after convertInteractionEventsToTracks, settings.maxTrackNameLength
\* is the length of the longest name among the participants that have an
\* output track in this draw cycle.
C24_LongestDisplayedName ==
    (ConvertFulfilled(1) /\ tracks # <<>>) => settings.maxTrackNameLength = LongestTrackName


\* the number of cells of the protein columns of the rows that name key
Mentions(events, key) ==
    Cardinality({i \in 1..Len(events) :
                    ToPropertyKey(RowGet(events[i], GreedyConfig.proteinA)) = key})
    + Cardinality({i \in 1..Len(events) :
                    ToPropertyKey(RowGet(events[i], GreedyConfig.proteinB)) = key})

\* the proteins the rows name
Mentioned(events) ==
    {ToPropertyKey(RowGet(events[i], GreedyConfig.proteinA)) : i \in 1..Len(events)} \cup
    {ToPropertyKey(RowGet(events[i], GreedyConfig.proteinB)) : i \in 1..Len(events)}

\* the track of an interaction, its partner and its order
AsInteraction(trackName, name, order) == [track |-> trackName, name |-> name, order |-> order]

\* the interactions a row may become: one of its proteins is the track, the
\* other the partner
InteractionsOfRow(row) ==
    LET a == ToPropertyKey(RowGet(row, GreedyConfig.proteinA))
        b == ToPropertyKey(RowGet(row, GreedyConfig.proteinB))
        o == ToNumber(RowGet(row, GreedyConfig.eventOrderColumn))
    IN {AsInteraction(a, b, o), AsInteraction(b, a, o)}

\* every row of the list has become exactly one interaction of one track:
\* as many interactions as rows, and each kind of row as often as the
\* interactions it may become
OneInteractionPerRow(rows, made, madeTracks) ==
    /\ Len(made) = Len(rows)
    /\ \A r \in 1..Len(rows) :
          Cardinality({q \in 1..Len(rows) : InteractionsOfRow(rows[q]) = InteractionsOfRow(rows[r])})
          = Cardinality({i \in 1..Len(made) :
                AsInteraction(madeTracks[made[i].trackNumber + 1].trackName,
                              made[i].name, made[i].order) \in InteractionsOfRow(rows[r])})

\* C25: every turn of buildTracks takes the protein with the greatest
\* remaining count, uses up at least one row and leaves proteinCounts equal
\* to the rows that remain for each protein; buildTracks returns with
\* eventData empty and one interaction, on one track, for every row handed in.
C25_GreedyTurnsUseUpRows ==
    [][/\ BuildTracksTurn =>
             /\ Len(eventData') < Len(eventData)
             /\ \A key \in Mentioned(eventData) :
                   Mentions(eventData, key)
                       <= Mentions(eventData, greedyTracks'[Len(greedyTracks')].trackName)
             /\ \A key \in Mentioned(processed) :
                   CountOf(proteinCounts', key) = Mentions(eventData', key)
       /\ BuildTracksReturn =>
             /\ eventData = <<>>
             /\ OneInteractionPerRow(processed, interactions, greedyTracks)]_vars

\* a row that has both its proteins
RowHasProteins(row) ==
    /\ ToBoolean(RowGet(row, GreedyConfig.proteinA))
    /\ ToBoolean(RowGet(row, GreedyConfig.proteinB))



\* the configuration of the comparison: minimumInteractionCount 1 and
\* duplicate removal off
CountingConfig == [DefaultConfig EXCEPT !.minimumInteractionCount = JsInt(1)]

\* the names of the tracks buildTrackCounts and getTracks give for the rows,
\* in the order of tracks
CountingTrackNames(rows) ==
    [i \in 1..Len(FreshTracks(rows, CountingConfig)) |->
        FreshTracks(rows, CountingConfig)[i].protein]

\* the names of the tracks of buildTracks, in the order of tracks
GreedyTrackNames == [i \in 1..Len(greedyTracks) |-> greedyTracks[i].trackName]

\* a row of two different proteins
TwoProteins(row) ==
    /\ RowHasProteins(row)
    /\ RowGet(row, GreedyConfig.proteinA) # RowGet(row, GreedyConfig.proteinB)

\* C26: the two strategies are not equivalent.  On every list of rows of two
\* different proteins buildTracks gives fewer tracks than buildTrackCounts
\* and getTracks (with minimumInteractionCount 1 and duplicate removal off),
\* so the track membership differs.
C26_GreedyBuildsFewerTracks ==
    (step = "built" /\ \A i \in 1..Len(processed) : TwoProteins(processed[i])) =>
        /\ Len(GreedyTrackNames) < Len(CountingTrackNames(processed))
        /\ GreedyTrackNames # CountingTrackNames(processed)

\* buildTracks has returned for the rows (P1, P2, 1), (P1, P2, 2): one track,
\* P1, where buildTrackCounts and getTracks give P1 and P2
C26_Witness ==
    /\ step = "built"
    /\ processed = << Row(P1, P2, <<"1">>), Row(P1, P2, <<"2">>) >>
    /\ GreedyTrackNames = << P1 >>
    /\ CountingTrackNames(processed) = << P1, P2 >>


\* the interactions of track a that name the protein of track b
EntriesFor(a, b) ==
    {i \in 1..Len(a.interactions) : a.interactions[i].protein = b.protein}

\* C27: with removeDuplicateInteractions off, the interactions between
\* output tracks are mirrored: B is among the interactions of A exactly when
\* A is among those of B, and both entries carry the same order.
C27_InteractionsMirrored ==
    (ConvertFulfilled(1) /\ config.removeDuplicateInteractions # "true") =>
        \A a, b \in 1..Len(tracks) :
            /\ EntriesFor(tracks[a], tracks[b]) # {} <=> EntriesFor(tracks[b], tracks[a]) # {}
            /\ \A i \in EntriesFor(tracks[a], tracks[b]) :
                  \A j \in EntriesFor(tracks[b], tracks[a]) :
                      tracks[a].interactions[i].timePoint = tracks[b].interactions[j].timePoint


DrawTracksStage == "drawTracks"

\* a pair of proteins has more than one event among the rows
PairRepeats(rows, cfg) ==
    \E i, j \in 1..Len(rows) :
        /\ i < j
        /\ {NameOf(rows[i], cfg.proteinAColumn), NameOf(rows[i], cfg.proteinBColumn)}
           = {NameOf(rows[j], cfg.proteinAColumn), NameOf(rows[j], cfg.proteinBColumn)}

\* C28: every output track has at least one interaction, whatever
\* removeDuplicateInteractions is and also when pairs repeat, so that
\* addTrackLabel never reads interactions[0] of a track without interactions:
\* drawTracks does not throw.
C28_TracksHaveInteractions ==
    /\ \A t \in 1..Len(tracks) : tracks[t].interactions # <<>>
    /\ \A p \in Pipelines : pipe[p].threwAt # DrawTracksStage

\* a cycle over rows with a repeated pair has drawn the label of every track
C28_Witness ==
    /\ pipe[1].pc = "done"
    /\ tracks # <<>>
    /\ PairRepeats(interactionEvents, config)
    /\ \E i \in 1..Len(dom) : dom[i].held /\ dom[i].trackLabels = Len(tracks)


\* C29: at every moment at most one svg made by the module is attached
\* under config.selector, whatever the order of the draw() calls and of the
\* loads that resolve.
C29_AtMostOneCanvas == Len(dom) <= 1


\* C30: whenever validateConfig accepts the configuration, draw() starts one
\* load and returns without throwing, whatever config.sourceType is.
C30_AcceptedConfigStartsLoad ==
    [][\A p \in Pipelines :
          (Draw(p) /\ ValidateConfig(config) = NoError) =>
              /\ thrown' = NoError
              /\ pipe'[p].pc = "loading"
              /\ \A q \in Pipelines \ {p} : pipe'[q] = pipe[q]]_vars

=============================================================================
